---- MODULE Spec2Model ----
(***************************************************************************)
(* A model of videoh's window.py (class VideohWindow): the metadata store  *)
(* (metadata.json and self.metadata), the library scan, the merged episode *)
(* read, the episode-number extraction and the metadata fetch worker.      *)
(*                                                                         *)
(* Python values are modelled as follows.                                  *)
(*   - a str that the code inspects character by character (a file or     *)
(*     directory name) is a sequence of one-character strings;             *)
(*   - a str that the code only stores, compares or formats (a path, a     *)
(*     show name, a metadata key) is a TLA+ string;                        *)
(*   - a metadata value is a pair <<type, text>> (Val), so that Python's   *)
(*     False and the text "False" stay different values;                   *)
(*   - a dict is a function; dict.get(k, {}) is Get;                       *)
(*   - a file's text is a sequence of tokens (Tok).                        *)
(***************************************************************************)
EXTENDS Naturals, Integers, Sequences, FiniteSets, TLC

VARIABLES
  metadata,       \* self.metadata when it is a dict (else the empty function)
  metadataType,   \* "dict" | "list": the Python type of self.metadata
  doc,            \* the file self.metadata_file: [exists, text]
  movies,         \* self.movies
  shows,          \* self.shows: an ordered dict, a sequence of [name, seasons]
  movies_box,     \* the movie cards shown, by path
  shows_box,      \* the show cards shown, by show name
  app,            \* "new" (before __init__) | "ready" | "crashed" (__init__ raised)
  obs,            \* the last completed handler: what it was given, returned, raised
  filename,       \* input of _get_episode_number
  episode_number, \* its result
  show_dir,       \* input of the show scan: one show directory's listing
  seasons,        \* its result
  use_imdb,       \* settings 'use-imdb'
  use_tvmaze,     \* settings 'use-tvmaze'
  fetches,        \* how many times on_fetch_metadata has run
  workers,        \* the thread of each fetch: its position and locals
  visible,        \* progress_dialog.get_visible() of each fetch
  cancelled,      \* whether the user has answered "cancel" on that dialog
  at_cancel,      \* the keys the in-memory store held when the user did
  idle,           \* the callbacks GLib.idle_add has queued, oldest first
  error_dialogs,  \* how many error dialogs _show_error_dialog has presented
  toasts,         \* how many "Successfully fetched metadata" toasts were shown
  ui_writers,     \* the threads that have written the catalog or the UI
  torn_read,      \* whether a load has read a document that was being written
  search_entry,   \* the text of the search entry
  search_mode,    \* the search mode selected: 0 for title, 1 for genre
  edit_dialog     \* the edit dialog that is open, with what its handler keeps

vars == <<metadata, metadataType, doc, movies, shows, movies_box, shows_box, app, obs,
          filename, episode_number, show_dir, seasons,
          use_imdb, use_tvmaze, fetches, workers, visible, cancelled, at_cancel,
          idle, error_dialogs, toasts, ui_writers, torn_read,
          search_entry, search_mode, edit_dialog>>

storeVars == <<metadata, metadataType, doc, movies, shows, movies_box, shows_box, app, obs>>
episodeVars == <<filename, episode_number>>
scanVars == <<show_dir, seasons>>
viewVars == <<search_entry, search_mode, edit_dialog>>
fetchVars == <<use_imdb, use_tvmaze, fetches, workers, visible, cancelled, at_cancel,
               idle,
               error_dialogs, toasts, ui_writers, torn_read>>

(***************************************************************************)
(* Bounds of the model.                                                    *)
(***************************************************************************)
MaxNameLen == 6      \* longest file stem given to _get_episode_number
MaxDirItems == 3     \* most entries of one show directory in the scan model
MaxFetches == 1      \* most runs of on_fetch_metadata in one behaviour
MaxRacing == 2       \* the same, where fetches of movies alone overlap

(***************************************************************************)
(* Python values.                                                          *)
(***************************************************************************)
Val(t, s) == <<t, s>>
PyTrue == Val("bool", "True")
PyFalse == Val("bool", "False")
PyNone == Val("NoneType", "None")
Str(s) == Val("str", s)

\* bool(v): the truth value Python gives v in `if v:`
Truthy(v) == v \notin {PyFalse, PyNone, Str(""), Val("int", "0"), Val("list", "")}

\* str(v), as f"{v}" formats it
Format(v) == v[2]

EmptyRec == [f \in {} |-> PyNone]

\* the None that _get_episode_number returns (line 747)
NoEpisode == -1

\* d.get(k, {})
Get(d, k) == IF k \in DOMAIN d THEN d[k] ELSE EmptyRec

\* d.get(f) on a record: None when the field is absent
GetField(r, f) == IF f \in DOMAIN r THEN r[f] ELSE PyNone

\* d[k] = v
Put(d, k, v) == [x \in (DOMAIN d) \cup {k} |-> IF x = k THEN v ELSE d[x]]

\* {**b, **a}: the overlay the wrong way round
DictMergeLeftWins(a, b) ==
  [f \in (DOMAIN a) \cup (DOMAIN b) |-> IF f \in DOMAIN a THEN a[f] ELSE b[f]]

\* {**a, **b}
DictMerge(a, b) ==
  [f \in (DOMAIN a) \cup (DOMAIN b) |-> IF f \in DOMAIN b THEN b[f] ELSE a[f]]

(***************************************************************************)
(* str methods on names (sequences of characters).                         *)
(***************************************************************************)
UpperAlpha == <<"A","B","C","D","E","F","G","H","I","J","K","L","M",
                "N","O","P","Q","R","S","T","U","V","W","X","Y","Z">>
LowerAlpha == <<"a","b","c","d","e","f","g","h","i","j","k","l","m",
                "n","o","p","q","r","s","t","u","v","w","x","y","z">>
Digits == {"0","1","2","3","4","5","6","7","8","9"}

LowerChar(c) ==
  IF \E i \in 1..26 : UpperAlpha[i] = c
    THEN LowerAlpha[CHOOSE i \in 1..26 : UpperAlpha[i] = c]
    ELSE c

\* s.lower()
Lower(s) == [i \in 1..Len(s) |-> LowerChar(s[i])]

\* s.startswith(p)
StartsWith(s, p) == Len(s) >= Len(p) /\ SubSeq(s, 1, Len(p)) = p

\* s.replace(old, ""): every non-overlapping occurrence, left to right
RECURSIVE RemoveAll(_, _)
RemoveAll(s, old) ==
  IF s = <<>> THEN <<>>
  ELSE IF StartsWith(s, old) THEN RemoveAll(SubSeq(s, Len(old) + 1, Len(s)), old)
  ELSE <<s[1]>> \o RemoveAll(Tail(s), old)

\* s.strip()
RECURSIVE LStrip(_)
LStrip(s) == IF s # <<>> /\ s[1] = " " THEN LStrip(Tail(s)) ELSE s
RECURSIVE RStrip(_)
RStrip(s) ==
  IF s # <<>> /\ s[Len(s)] = " " THEN RStrip(SubSeq(s, 1, Len(s) - 1)) ELSE s
Strip(s) == RStrip(LStrip(s))

\* the str a name stands for
RECURSIVE Join(_)
Join(s) == IF s = <<>> THEN "" ELSE s[1] \o Join(Tail(s))

\* pathlib: PurePath.suffix and PurePath.stem of a final component
LastDot(name) ==
  IF \E i \in 1..Len(name) : name[i] = "."
    THEN CHOOSE i \in 1..Len(name) :
           name[i] = "." /\ \A j \in (i + 1)..Len(name) : name[j] # "."
    ELSE 0
PathSuffix(name) ==
  LET i == LastDot(name)
  IN IF i > 1 /\ i < Len(name) THEN SubSeq(name, i, Len(name)) ELSE <<>>
PathStem(name) ==
  LET i == LastDot(name)
  IN IF i > 1 /\ i < Len(name) THEN SubSeq(name, 1, i - 1) ELSE name

(***************************************************************************)
(* The filesystem the scan reads: a directory entry is                     *)
(*   [kind |-> "file" | "dir", path |-> str(entry), name |-> its name,     *)
(*    files |-> a directory's listing in iteration order].                 *)
(***************************************************************************)
FileEntry(parent, name) ==
  [kind |-> "file", path |-> parent \o "/" \o Join(name), name |-> name,
   files |-> <<>>]
DirEntry(parent, name, names) ==
  [kind |-> "dir", path |-> parent \o "/" \o Join(name), name |-> name,
   files |-> [i \in 1..Len(names) |->
                FileEntry(parent \o "/" \o Join(name), names[i])]]

\* str(path)
PathOf(e) == e.path

\* ['.mp4', '.mkv', '.avi', '.webm']
VideoSuffixes == { <<".","m","p","4">>, <<".","m","k","v">>,
                   <<".","a","v","i">>, <<".","w","e","b","m">> }

\* x.is_file() and x.suffix.lower() in [...]
IsVideoFile(e) == e.kind = "file" /\ Lower(PathSuffix(e.name)) \in VideoSuffixes

\* the dict literals of lines 169-173 (a movie) and 190-195, 203-208 (an episode)
MovieEntry(e, md) ==
  [path |-> PathOf(e), title |-> PathStem(e.name), metadata |-> Get(md, PathOf(e))]
EpisodeEntry(e, season, md) ==
  [path |-> PathOf(e), title |-> PathStem(e.name), season |-> season,
   metadata |-> Get(md, PathOf(e))]

(***************************************************************************)
(* An insertion-ordered dict (seasons, self.shows): a sequence of          *)
(* [key, value] with distinct keys.                                        *)
(***************************************************************************)
HasKey(d, k) == \E i \in 1..Len(d) : d[i].key = k
Lookup(d, k) == d[CHOOSE i \in 1..Len(d) : d[i].key = k].value
\* d[k] = v: an existing key keeps its place and loses its old value
DictSet(d, k, v) ==
  IF HasKey(d, k)
    THEN [i \in 1..Len(d) |-> IF d[i].key = k THEN [key |-> k, value |-> v] ELSE d[i]]
    ELSE Append(d, [key |-> k, value |-> v])
DictKeys(d) == {d[i].key : i \in 1..Len(d)}

(***************************************************************************)
(* load_library, lines 176-212: the scan of one show directory.            *)
(***************************************************************************)
SeasonWord == <<"s","e","a","s","o","n">>
SeasonOne == <<"1">>

\* line 184
IsSeasonDir(item) == item.kind = "dir" /\ StartsWith(Lower(item.name), SeasonWord)

\* line 186: item.name.lower().replace("season", "").strip()
season_num(item) == Strip(RemoveAll(Lower(item.name), SeasonWord))

\* lines 187-196: the episodes of one season directory
SeasonEpisodes(item, md) ==
  LET vids == SelectSeq(item.files, IsVideoFile)
  IN [i \in 1..Len(vids) |-> EpisodeEntry(vids[i], season_num(item), md)]

\* lines 183-209: one iteration of `for item in show_dir.iterdir()`
ScanItem(acc, item, md) ==
  IF IsSeasonDir(item)
    THEN LET episodes == SeasonEpisodes(item, md)
         IN IF episodes # <<>> THEN DictSet(acc, season_num(item), episodes) ELSE acc
  ELSE IF IsVideoFile(item)
    THEN LET s1 == IF HasKey(acc, SeasonOne) THEN acc ELSE DictSet(acc, SeasonOne, <<>>)
         IN DictSet(s1, SeasonOne,
                    Append(Lookup(s1, SeasonOne), EpisodeEntry(item, SeasonOne, md)))
  ELSE acc

RECURSIVE ScanItems(_, _, _)
ScanItems(acc, items, md) ==
  IF items = <<>> THEN acc
  ELSE ScanItems(ScanItem(acc, Head(items), md), Tail(items), md)

\* lines 181-209: the seasons dict of one show directory
ScanShowDir(dir, md) == ScanItems(<<>>, dir.files, md)

\* whether the scan of `items` evaluates self.metadata.get(...) at all
TouchesMetadata(items) ==
  \E i \in 1..Len(items) :
    \/ IsVideoFile(items[i])
    \/ IsSeasonDir(items[i]) /\ \E j \in 1..Len(items[i].files) :
                                   IsVideoFile(items[i].files[j])

\* lines 164-174: [movies, err]. With self.metadata not a dict the first
\* self.metadata.get raises AttributeError, after self.movies = [].
ScanMovies(listing, md, mdType) ==
  LET vids == SelectSeq(listing, IsVideoFile)
  IN IF mdType # "dict" /\ vids # <<>>
       THEN [movies |-> <<>>, err |-> "AttributeError"]
       ELSE [movies |-> [i \in 1..Len(vids) |-> MovieEntry(vids[i], md)],
             err |-> "none"]

\* self.metadata.get(path, {}) of lines 172, 194 and 207 is the scan's only
\* use of the store: a scan differs from the scan under the empty store in
\* the metadata of its entries alone.
WithMetadata(entries, md) ==
  [i \in 1..Len(entries) |-> [entries[i] EXCEPT !.metadata = Get(md, entries[i].path)]]
SeasonsWithMetadata(ss, md) ==
  [i \in 1..Len(ss) |-> [key |-> ss[i].key, value |-> WithMetadata(ss[i].value, md)]]
ShowsWithMetadata(sh, md) ==
  [i \in 1..Len(sh) |-> [key |-> sh[i].key, value |-> SeasonsWithMetadata(sh[i].value, md)]]

\* lines 176-212: [shows, err]
RECURSIVE ScanShows(_, _, _, _)
ScanShows(acc, listing, md, mdType) ==
  IF listing = <<>> THEN [shows |-> acc, err |-> "none"]
  ELSE LET d == Head(listing)
       IN IF d.kind # "dir" THEN ScanShows(acc, Tail(listing), md, mdType)
          ELSE IF mdType # "dict" /\ TouchesMetadata(d.files)
            THEN [shows |-> acc, err |-> "AttributeError"]
          ELSE LET ss == ScanShowDir(d, md)
               IN ScanShows(IF ss # <<>> THEN DictSet(acc, Join(d.name), ss) ELSE acc,
                            Tail(listing), md, mdType)

(***************************************************************************)
(* The metadata document. Its text is a sequence of tokens                 *)
(* <<kind, key, record>>: "{" and "}" delimit a JSON object, "entry" is    *)
(* one `"key": {record}` member, "[]" is a complete JSON value that is no  *)
(* object, "junk" is text no JSON grammar accepts and "badbytes" is bytes  *)
(* that are not UTF-8.                                                     *)
(***************************************************************************)
Tok(kind, key, rec) == <<kind, key, rec>>
TokOpen == Tok("{", "", EmptyRec)
TokClose == Tok("}", "", EmptyRec)
TokEntry(k, r) == Tok("entry", k, r)
TokList == Tok("[]", "", EmptyRec)
TokJunk == Tok("junk", "", EmptyRec)
TokBadBytes == Tok("badbytes", "", EmptyRec)

NoFile == [exists |-> FALSE, text |-> <<>>]
FileWith(text) == [exists |-> TRUE, text |-> text]

\* The library on disk (the scan's input), fixed while the program runs.
\* ~/Videos/Movies/**/* in glob order
MoviesListing ==
  << FileEntry("/Movies", <<"m","1",".","m","p","4">>),
     FileEntry("/Movies", <<"m","2",".","M","K","V">>),
     FileEntry("/Movies", <<"n",".","t","x","t">>) >>
\* ~/Videos/Shows/* in iterdir order
ShowsListing ==
  << [kind |-> "dir", path |-> "/Shows/X", name |-> <<"X">>,
      files |-> << DirEntry("/Shows/X", <<"S","e","a","s","o","n"," ","1">>,
                            << <<"e","1",".","m","p","4">> >>) >>],
     [kind |-> "dir", path |-> "/Shows/Y", name |-> <<"Y">>,
      files |-> << FileEntry("/Shows/Y", <<"E","2",".","m","k","v">>),
                   FileEntry("/Shows/Y", <<"E","0",".","m","k","v">>) >>] >>

M1 == "/Movies/m1.mp4"
M2 == "/Movies/m2.MKV"
X1 == "/Shows/X/Season 1/e1.mp4"
Y2 == "/Shows/Y/E2.mkv"
Y0 == "/Shows/Y/E0.mkv"
ShowNames == <<"X", "Y">>

\* f"show:{v}"
ShowKey(v) == "show:" \o Format(v)

\* Every key the model stores under, in the order json_dump writes them.
KeyOrder == <<M1, M2, X1, Y2, Y0, "show:X", "show:Y", "show:None">>

\* json.dump(self.metadata, f, indent=2): the text written
json_dump(md, mdType) ==
  IF mdType # "dict" THEN <<TokList>>
  ELSE LET ks == SelectSeq(KeyOrder, LAMBDA k : k \in DOMAIN md)
       IN <<TokOpen>> \o [i \in 1..Len(ks) |-> TokEntry(ks[i], md[ks[i]])] \o <<TokClose>>

\* the members of an object, a later duplicate key replacing an earlier one
RECURSIVE ParseMembers(_, _)
ParseMembers(acc, toks) ==
  IF toks = <<>> THEN acc
  ELSE ParseMembers(Put(acc, Head(toks)[2], Head(toks)[3]), Tail(toks))

IsObjectText(text) ==
  /\ Len(text) >= 2
  /\ text[1] = TokOpen
  /\ text[Len(text)] = TokClose
  /\ \A i \in 2..(Len(text) - 1) : text[i][1] = "entry"

\* with open(self.metadata_file, 'r') as f: json.load(f)
json_load(d) ==
  IF ~d.exists
    THEN [status |-> "FileNotFoundError", type |-> "dict", value |-> <<>>]
  ELSE IF \E i \in 1..Len(d.text) : d.text[i] = TokBadBytes
    THEN [status |-> "UnicodeDecodeError", type |-> "dict", value |-> <<>>]
  ELSE IF d.text = <<TokList>>
    THEN [status |-> "ok", type |-> "list", value |-> <<>>]
  ELSE IF IsObjectText(d.text)
    THEN [status |-> "ok", type |-> "dict",
          value |-> ParseMembers(<<>>, SubSeq(d.text, 2, Len(d.text) - 1))]
  ELSE [status |-> "JSONDecodeError", type |-> "dict", value |-> <<>>]

(***************************************************************************)
(* The window's state as one record, so that a handler is an operator      *)
(* from state to state; err is the exception the handler raised.           *)
(***************************************************************************)
Self ==
  [metadata |-> metadata, metadataType |-> metadataType, doc |-> doc,
   movies |-> movies, shows |-> shows,
   movies_box |-> movies_box, shows_box |-> shows_box, err |-> "none"]

\* Sequencing: F runs unless an exception is already propagating.
Then(w, F(_)) == IF w.err # "none" THEN w ELSE F(w)

\* lines 145-154
setup_directories(w) ==
  IF ~w.doc.exists THEN [w EXCEPT !.doc = FileWith(<<TokOpen, TokClose>>)] ELSE w

\* lines 156-162: self.metadata after the try statement, or the exception
\* that leaves it
StoreLoaded(w, j) ==
  IF j.status = "ok"
    THEN [w EXCEPT !.metadata = j.value, !.metadataType = j.type]
  ELSE IF j.status = "JSONDecodeError"
    THEN [w EXCEPT !.metadata = <<>>, !.metadataType = "dict"]
  ELSE [w EXCEPT !.err = j.status]
LoadStore(w) == StoreLoaded(w, json_load(w.doc))

\* The scan of the library on disk: under the empty store, and with
\* self.metadata not a dict.
ScannedMovies == ScanMovies(MoviesListing, <<>>, "dict")
ScannedShows == ScanShows(<<>>, ShowsListing, <<>>, "dict")
ScannedMoviesBad == ScanMovies(MoviesListing, <<>>, "list")
ScannedShowsBad == ScanShows(<<>>, ShowsListing, <<>>, "list")

\* lines 164-212
ScanLibrary(w) ==
  LET sm == IF w.metadataType = "dict"
              THEN [movies |-> WithMetadata(ScannedMovies.movies, w.metadata),
                    err |-> "none"]
              ELSE ScannedMoviesBad
      ss == IF w.metadataType = "dict"
              THEN [shows |-> ShowsWithMetadata(ScannedShows.shows, w.metadata),
                    err |-> "none"]
              ELSE ScannedShowsBad
  IN IF sm.err # "none"
       THEN [w EXCEPT !.movies = sm.movies, !.err = sm.err]
       ELSE [w EXCEPT !.movies = sm.movies, !.shows = ss.shows, !.err = ss.err]

\* lines 156-212
load_library(w) == Then(LoadStore(w), ScanLibrary)

\* lines 514-603: one card per movie and per show
populate_ui(w) ==
  [w EXCEPT !.movies_box = [i \in 1..Len(w.movies) |-> w.movies[i].path],
            !.shows_box = [i \in 1..Len(w.shows) |-> w.shows[i].key]]

\* What a write of `own` at offset 0 leaves of a file holding `existing`.
Overwrite(existing, own) == own \o SubSeq(existing, Len(own) + 1, Len(existing))

\* line 215: open(self.metadata_file, 'w') truncates the file
save_open(w) == [w EXCEPT !.doc = FileWith(<<>>)]
\* line 216 and the close: the dumped text reaches the file
save_write(w, text) == [w EXCEPT !.doc = FileWith(Overwrite(w.doc.text, text))]

\* save_metadata with the dump left out: the file is opened and closed
save_metadata_no_dump(w) == save_open(w)

\* lines 214-216
save_metadata(w) == save_write(save_open(w), json_dump(w.metadata, w.metadataType))

\* line 219: self.metadata[file_path] = metadata
SetRecord(w, k, r) ==
  IF w.metadataType # "dict" THEN [w EXCEPT !.err = "TypeError"]
  ELSE [w EXCEPT !.metadata = Put(w.metadata, k, r)]

\* lines 218-223
update_metadata(w, k, r) ==
  Then(Then(Then(SetRecord(w, k, r), save_metadata), load_library), populate_ui)

\* lines 749-757
get_episode_metadata(w, episode_path) ==
  LET md == Get(w.metadata, episode_path)
  IN IF Truthy(GetField(md, "is_episode"))
       THEN DictMerge(Get(w.metadata, ShowKey(GetField(md, "show_name"))), md)
       ELSE md

(***************************************************************************)
(* The store on its own: one thread constructs the window and then calls   *)
(* the store's operations with every key and record of small sets.         *)
(***************************************************************************)
RecShowA == [f \in {"genres"} |-> Val("list", "A")]
RecShowB == [f \in {"genres", "title"} |->
               IF f = "genres" THEN Val("list", "B") ELSE Str("Show")]
RecEp == [f \in {"is_episode", "show_name", "title"} |->
            IF f = "is_episode" THEN PyTrue
            ELSE IF f = "show_name" THEN Str("X") ELSE Str("Ep1")]
RecEpGenres == [f \in {"is_episode", "show_name", "genres"} |->
                  IF f = "is_episode" THEN PyTrue
                  ELSE IF f = "show_name" THEN Str("X") ELSE Val("list", "C")]
RecEpFalse == [f \in {"is_episode", "show_name", "title"} |->
                 IF f = "is_episode" THEN PyFalse
                 ELSE IF f = "show_name" THEN Str("X") ELSE Str("Ep1")]
RecEpNoShow == [f \in {"is_episode", "title"} |->
                  IF f = "is_episode" THEN PyTrue ELSE Str("Ep1")]
RecEpText == [f \in {"is_episode", "show_name"} |->
                IF f = "is_episode" THEN Str("no") ELSE Str("X")]

RecordPool == {EmptyRec, RecShowA, RecShowB, RecEp, RecEpGenres, RecEpFalse,
               RecEpNoShow, RecEpText}
StoreKeys == {X1, "show:X", "show:None"}
ReadPaths == {X1, Y2}

\* What metadata.json may hold when the program starts.
InitialDocs ==
  { NoFile,
    FileWith(<<>>),
    FileWith(<<TokJunk>>),
    FileWith(<<TokOpen, TokEntry(M1, RecShowA)>>),
    FileWith(<<TokOpen, TokClose, TokClose>>),
    FileWith(<<TokList>>),
    FileWith(<<TokBadBytes>>),
    FileWith(<<TokOpen, TokClose>>),
    FileWith(<<TokOpen, TokEntry(X1, RecEp), TokEntry("show:X", RecShowA), TokClose>>) }

\* lines 617-633: edit_metadata(movie, key, current_value) presents its
\* dialog; the response handler keeps `movie` and `key`
NoDialog == [open |-> FALSE, path |-> "", metadata |-> EmptyRec, key |-> ""]
EditDialog(movie, key) ==
  [open |-> TRUE, path |-> movie.path, metadata |-> movie.metadata, key |-> key]

\* Nothing is searched for or edited.
NoView ==
  /\ search_entry = <<>>
  /\ search_mode = 0
  /\ edit_dialog = NoDialog

\* No fetch has run.
NoFetch ==
  /\ use_imdb = TRUE
  /\ use_tvmaze = TRUE
  /\ fetches = 0
  /\ workers = <<>>
  /\ visible = <<>>
  /\ cancelled = <<>>
  /\ at_cancel = <<>>
  /\ idle = <<>>
  /\ error_dialogs = 0
  /\ toasts = 0
  /\ ui_writers = {}
  /\ torn_read = FALSE

NoObs ==
  [op |-> "none", key |-> "", rec |-> EmptyRec, ret |-> EmptyRec, err |-> "none"]

Commit(w) ==
  /\ metadata' = w.metadata
  /\ metadataType' = w.metadataType
  /\ doc' = w.doc
  /\ movies' = w.movies
  /\ shows' = w.shows
  /\ movies_box' = w.movies_box
  /\ shows_box' = w.shows_box

InitStore ==
  /\ doc \in InitialDocs
  /\ metadata = <<>>
  /\ metadataType = "dict"
  /\ movies = <<>>
  /\ shows = <<>>
  /\ movies_box = <<>>
  /\ shows_box = <<>>
  /\ app = "new"
  /\ obs = NoObs
  /\ NoFetch
  /\ NoView
  /\ filename = <<>>
  /\ episode_number = NoEpisode
  /\ show_dir = <<>>
  /\ seasons = <<>>

\* lines 91-101: __init__ up to populate_ui
Construct ==
  /\ app = "new"
  /\ \E w \in {Then(load_library(setup_directories(Self)), populate_ui)} :
        /\ Commit(w)
        /\ app' = IF w.err # "none" THEN "crashed" ELSE "ready"
        /\ obs' = [NoObs EXCEPT !.op = "load_library", !.err = w.err]
  /\ UNCHANGED <<episodeVars, scanVars, viewVars, fetchVars>>

\* update_metadata(key, record), as edit_metadata and the fetch call it
StoreUpdate ==
  /\ app = "ready"
  /\ \E k \in StoreKeys, r \in RecordPool :
       \E w \in {update_metadata(Self, k, r)} :
          /\ Commit(w)
          /\ obs' = [NoObs EXCEPT !.op = "update_metadata", !.key = k, !.rec = r,
                                  !.err = w.err]
  /\ UNCHANGED <<app, episodeVars, scanVars, viewVars, fetchVars>>

\* load_library() and populate_ui(), as _finish_metadata_refresh calls them
StoreReload ==
  /\ app = "ready"
  /\ obs.op # "load_library"
  /\ \E w \in {Then(load_library(Self), populate_ui)} :
        /\ Commit(w)
        /\ obs' = [NoObs EXCEPT !.op = "load_library", !.err = w.err]
  /\ UNCHANGED <<app, episodeVars, scanVars, viewVars, fetchVars>>

\* line 349: self.metadata[show_key] = show_metadata, which the show fetch
\* does without a save (the fetch ends there when the episode list cannot be
\* had or no local episode matches)
StoreAssign ==
  /\ app = "ready"
  /\ \E k \in {"show:X"}, r \in {RecShowA, RecShowB} :
       \E w \in {SetRecord(Self, k, r)} :
          /\ Commit(w)
          /\ obs' = [NoObs EXCEPT !.op = "assign", !.key = k, !.rec = r, !.err = w.err]
  /\ UNCHANGED <<app, episodeVars, scanVars, viewVars, fetchVars>>

\* get_episode_metadata(path)
StoreRead ==
  /\ app = "ready"
  /\ \E p \in ReadPaths :
       obs' = [NoObs EXCEPT !.op = "get_episode_metadata", !.key = p,
                            !.ret = get_episode_metadata(Self, p)]
  /\ UNCHANGED <<metadata, metadataType, doc, movies, shows, movies_box, shows_box,
                 app, episodeVars, scanVars, viewVars, fetchVars>>

NextStore == Construct \/ StoreUpdate \/ StoreAssign \/ StoreReload \/ StoreRead
SpecStore == InitStore /\ [][NextStore]_vars

(***************************************************************************)
(* _get_episode_number, lines 739-747:                                     *)
(*   re.search(r'[Ss]\d+[Ee](\d+)|[Ee](\d+)|(\d+)$', filename)             *)
(* re.search tries the start positions from left to right and, at each     *)
(* position, the alternatives in the order written.                        *)
(***************************************************************************)
IsDigit(c) == c \in Digits

\* \d+ at position i: how many characters the greedy repetition takes
RECURSIVE DigitRun(_, _)
DigitRun(s, i) == IF i <= Len(s) /\ IsDigit(s[i]) THEN 1 + DigitRun(s, i + 1) ELSE 0

NoMatch == [matched |-> FALSE, group |-> <<>>]
Matched(g) == [matched |-> TRUE, group |-> g]

\* [Ee](\d+) at position i
MatchE(s, i) ==
  IF i <= Len(s) /\ s[i] \in {"E", "e"} /\ DigitRun(s, i + 1) >= 1
    THEN Matched(SubSeq(s, i + 1, i + DigitRun(s, i + 1)))
    ELSE NoMatch

\* [Ss]\d+[Ee](\d+) at position i
MatchSE(s, i) ==
  IF i <= Len(s) /\ s[i] \in {"S", "s"} /\ DigitRun(s, i + 1) >= 1
    THEN MatchE(s, i + 1 + DigitRun(s, i + 1))
    ELSE NoMatch

\* (\d+)$ at position i
MatchTrailing(s, i) ==
  IF DigitRun(s, i) >= 1 /\ i + DigitRun(s, i) = Len(s) + 1
    THEN Matched(SubSeq(s, i, Len(s)))
    ELSE NoMatch

\* the alternation at position i: the first alternative that matches
MatchAt(s, i) ==
  IF MatchSE(s, i).matched THEN MatchSE(s, i)
  ELSE IF MatchE(s, i).matched THEN MatchE(s, i)
  ELSE MatchTrailing(s, i)

\* re.search: the match at the leftmost position that has one
re_search(s) ==
  IF \E i \in 1..Len(s) : MatchAt(s, i).matched
    THEN MatchAt(s, CHOOSE i \in 1..Len(s) :
                      /\ MatchAt(s, i).matched
                      /\ \A j \in 1..(i - 1) : ~MatchAt(s, j).matched)
    ELSE NoMatch

DigitValue(c) == CHOOSE n \in 0..9 : <<"0","1","2","3","4","5","6","7","8","9">>[n + 1] = c

\* int(digits)
RECURSIVE int(_)
int(ds) ==
  IF ds = <<>> THEN 0
  ELSE 10 * int(SubSeq(ds, 1, Len(ds) - 1)) + DigitValue(ds[Len(ds)])

\* lines 739-747
_get_episode_number(name) ==
  IF re_search(name).matched THEN int(re_search(name).group) ELSE NoEpisode

(***************************************************************************)
(* The extraction on its own: every stem of up to MaxNameLen characters    *)
(* over a small alphabet, and the stems the specification names.           *)
(***************************************************************************)
Alphabet == {"S", "E", "1", "2", "x"}

RECURSIVE NamesOfLen(_)
NamesOfLen(n) ==
  IF n = 0 THEN {<<>>}
  ELSE {Append(p, c) : p \in NamesOfLen(n - 1), c \in Alphabet}

NamedStems ==
  { <<"S","h","o","w"," ","S","0","2","E","0","5">>,
    <<"S","h","o","w"," ","E","0","7">>,
    <<"S","h","o","w"," ","1","2">>,
    <<"S","h","o","w">>,
    <<"s","h","o","w"," ","s","0","2","e","0","5">> }

Stems == NamedStems \cup UNION {NamesOfLen(n) : n \in 0..MaxNameLen}

InitEpisode ==
  /\ filename \in Stems
  /\ episode_number = NoEpisode
  /\ obs = NoObs
  /\ metadata = <<>>
  /\ metadataType = "dict"
  /\ doc = NoFile
  /\ movies = <<>>
  /\ shows = <<>>
  /\ movies_box = <<>>
  /\ shows_box = <<>>
  /\ app = "ready"
  /\ show_dir = <<>>
  /\ seasons = <<>>
  /\ NoFetch
  /\ NoView

\* episode['title'] of line 357 is the file's stem (lines 192 and 205)
ExtractEpisodeNumber ==
  /\ obs.op = "none"
  /\ episode_number' = _get_episode_number(filename)
  /\ obs' = [NoObs EXCEPT !.op = "_get_episode_number"]
  /\ UNCHANGED <<metadata, metadataType, doc, movies, shows, movies_box, shows_box,
                 app, filename, scanVars, viewVars, fetchVars>>

NextEpisode == ExtractEpisodeNumber
SpecEpisode == InitEpisode /\ [][NextEpisode]_vars

(***************************************************************************)
(* The show scan on its own: every listing of up to MaxDirItems entries of *)
(* a show directory, in every iteration order.                             *)
(***************************************************************************)
ShowRoot == "/Shows/Z"
ItemPool ==
  { FileEntry(ShowRoot, <<"f","1",".","m","p","4">>),
    FileEntry(ShowRoot, <<"f","2",".","M","K","V">>),
    FileEntry(ShowRoot, <<"n",".","t","x","t">>),
    DirEntry(ShowRoot, <<"S","e","a","s","o","n"," ","1">>,
             << <<"a","1",".","m","p","4">>, <<"a","2",".","a","v","i">> >>),
    DirEntry(ShowRoot, <<"s","e","a","s","o","n","1">>, << <<"b",".","m","p","4">> >>),
    DirEntry(ShowRoot, <<"S","e","a","s","o","n"," ","2">>, << <<"c",".","w","e","b","m">> >>),
    DirEntry(ShowRoot, <<"S","e","a","s","o","n"," ","3">>, << <<"n",".","t","x","t">> >>),
    DirEntry(ShowRoot, <<"E","x","t","r","a","s">>, << <<"d",".","m","p","4">> >>) }

\* the listings of n distinct entries, in every order
RECURSIVE ListingsOfLen(_)
ListingsOfLen(n) ==
  IF n = 0 THEN {<<>>}
  ELSE {Append(l, e) : l \in ListingsOfLen(n - 1), e \in ItemPool}

Distinct(l) == \A i, j \in 1..Len(l) : i # j => l[i] # l[j]

InitScan ==
  /\ show_dir \in {l \in UNION {ListingsOfLen(n) : n \in 0..MaxDirItems} : Distinct(l)}
  /\ seasons = <<>>
  /\ obs = NoObs
  /\ metadata = <<>>
  /\ metadataType = "dict"
  /\ doc = NoFile
  /\ movies = <<>>
  /\ shows = <<>>
  /\ movies_box = <<>>
  /\ shows_box = <<>>
  /\ app = "ready"
  /\ filename = <<>>
  /\ episode_number = NoEpisode
  /\ NoFetch
  /\ NoView

\* lines 181-209 for one show directory
ScanShow ==
  /\ obs.op = "none"
  /\ seasons' = ScanShowDir([files |-> show_dir], metadata)
  /\ obs' = [NoObs EXCEPT !.op = "scan"]
  /\ UNCHANGED <<metadata, metadataType, doc, movies, shows, movies_box, shows_box,
                 app, show_dir, episodeVars, fetchVars, viewVars>>

NextScan == ScanShow
SpecScan == InitScan /\ [][NextScan]_vars

(***************************************************************************)
(* The metadata fetch. on_fetch_metadata presents a progress dialog and    *)
(* starts a thread that runs fetch_metadata_async; the thread's steps      *)
(* interleave with the handlers of the main loop, each of which runs to    *)
(* completion. A thread is [pc, the list and dict its loops iterate, its   *)
(* positions in them, the arguments of the update_metadata call it is in]. *)
(* The library scan and the redraw are one step of whichever thread runs   *)
(* them; _update_progress_safely, which only queues a change of the        *)
(* dialog's body text, is left out.                                        *)
(***************************************************************************)
\* lines 292-301, 327-336 and 368-376: the records built from a provider's
\* answers
FetchedMovie ==
  [f \in {"title", "type"} |-> IF f = "title" THEN Str("Movie") ELSE Str("movie")]
FetchedShow ==
  [f \in {"title", "genres"} |-> IF f = "title" THEN Str("Show") ELSE Val("list", "G")]
FetchedEpisode(show_name) ==
  [f \in {"title", "is_episode", "show_name"} |->
     IF f = "title" THEN Str("Episode")
     ELSE IF f = "is_episode" THEN PyTrue ELSE Str(show_name)]

\* tvmaze.get_show_episodes(...): the (season, number) pairs a provider lists
EpisodePool ==
  {[season |-> 1, number |-> 0], [season |-> 1, number |-> 1], [season |-> 1, number |-> 2]}

\* whether int(s) returns rather than raising ValueError
IsNumeric(s) == s # <<>> /\ \A i \in 1..Len(s) : IsDigit(s[i])

\* lines 355-356: the episodes of `seasons` in the order the two loops visit them
RECURSIVE FlatEpisodes(_)
FlatEpisodes(ss) ==
  IF ss = <<>> THEN <<>> ELSE Head(ss).value \o FlatEpisodes(Tail(ss))

\* What the thread reads of a catalog entry: its path, title and season.
Item(entry) == [entry EXCEPT !.metadata = EmptyRec]
ItemsOf(entries) == [i \in 1..Len(entries) |-> Item(entries[i])]
ShowItems(sh) ==
  [i \in 1..Len(sh) |->
     [key |-> sh[i].key,
      value |-> [s \in 1..Len(sh[i].value) |->
                   [key |-> sh[i].value[s].key,
                    value |-> ItemsOf(sh[i].value[s].value)]]]]

NewThread ==
  [pc |-> "start", it_movies |-> <<>>, i |-> 1, it_shows |-> <<>>, j |-> 1,
   episodes_data |-> {}, e |-> 1, key |-> "", rec |-> EmptyRec, caller |-> "",
   tried |-> {}, raised |-> FALSE, posted_finish |-> FALSE, after_cancel |-> FALSE,
   before |-> <<>>, failed |-> FALSE, saved |-> {}]

Threads == 1..fetches

\* the state after __init__ has run over document d
Constructed(d) ==
  Then(load_library(setup_directories(
         [metadata |-> <<>>, metadataType |-> "dict", doc |-> d,
          movies |-> <<>>, shows |-> <<>>, movies_box |-> <<>>,
          shows_box |-> <<>>, err |-> "none"])), populate_ui)

\* What metadata.json holds when the program starts: nothing, or the
\* records of an earlier fetch of show X, its title since changed at the
\* provider.
PriorShow == [FetchedShow EXCEPT !.title = Str("Old")]
PriorStore == Put(Put(<<>>, X1, FetchedEpisode("X")), "show:X", PriorShow)
StartDocs == {NoFile, FileWith(json_dump(PriorStore, "dict"))}

\* The window as constructed over document d, the two settings being a and b.
Started(d, a, b) ==
  /\ \E w \in {Constructed(d)} :
         /\ metadata = w.metadata
         /\ metadataType = w.metadataType
         /\ doc = w.doc
         /\ movies = w.movies
         /\ shows = w.shows
         /\ movies_box = w.movies_box
         /\ shows_box = w.shows_box
  /\ app = "ready"
  /\ obs = NoObs
  /\ filename = <<>>
  /\ episode_number = NoEpisode
  /\ show_dir = <<>>
  /\ seasons = <<>>
  /\ use_imdb = a
  /\ use_tvmaze = b
  /\ fetches = 0
  /\ workers = <<>>
  /\ visible = <<>>
  /\ cancelled = <<>>
  /\ at_cancel = <<>>
  /\ idle = <<>>
  /\ error_dialogs = 0
  /\ toasts = 0
  /\ ui_writers = {}
  /\ torn_read = FALSE
  /\ NoView

Init == \E d \in StartDocs, a \in BOOLEAN, b \in BOOLEAN : Started(d, a, b)

\* A modal dialog of the window is open: the window takes no input.
ModalOpen == \E w \in Threads : visible[w]

\* A load by a thread whose view of the document is d.
Incomplete(d) == json_load(d).status = "JSONDecodeError"

\* lines 415-474: the "fetch metadata" action, at most `most` times
on_fetch_metadata(most) ==
  /\ app = "ready"
  /\ ~ModalOpen
  /\ ~edit_dialog.open
  /\ fetches < most
  /\ fetches' = fetches + 1
  /\ workers' = Append(workers, NewThread)
  /\ visible' = Append(visible, TRUE)
  /\ cancelled' = Append(cancelled, FALSE)
  /\ at_cancel' = Append(at_cancel, {})
  /\ UNCHANGED <<storeVars, episodeVars, scanVars, viewVars, use_imdb, use_tvmaze,
                 idle, error_dialogs, toasts, ui_writers, torn_read>>

StartFetch == on_fetch_metadata(MaxFetches)

\* line 469: the user answers "cancel" and the dialog closes
CancelFetch ==
  /\ \E w \in Threads :
       /\ visible[w]
       /\ visible' = [visible EXCEPT ![w] = FALSE]
       /\ cancelled' = [cancelled EXCEPT ![w] = TRUE]
       /\ at_cancel' = [at_cancel EXCEPT ![w] = DOMAIN metadata]
  /\ UNCHANGED <<storeVars, episodeVars, scanVars, viewVars, use_imdb, use_tvmaze,
                 fetches, workers, idle, error_dialogs, toasts, ui_writers, torn_read>>

\* lines 384-407, run by the main loop
IdleFinish ==
  /\ idle # <<>>
  /\ Head(idle).fn = "_finish_metadata_refresh"
  /\ idle' = Tail(idle)
  /\ \E w \in {Then(load_library(Self), populate_ui)} :
       /\ Commit(w)
       /\ toasts' = IF w.err = "none" THEN toasts + 1 ELSE toasts
  /\ torn_read' = (torn_read \/ Incomplete(doc))
  /\ ui_writers' = ui_writers \cup {"main"}
  /\ UNCHANGED <<app, obs, episodeVars, scanVars, viewVars, use_imdb, use_tvmaze, fetches,
                 workers, visible, cancelled, at_cancel, error_dialogs>>

\* progress_dialog.close, run by the main loop
IdleClose ==
  /\ idle # <<>>
  /\ Head(idle).fn = "close"
  /\ idle' = Tail(idle)
  /\ visible' = [visible EXCEPT ![Head(idle).w] = FALSE]
  /\ UNCHANGED <<storeVars, episodeVars, scanVars, viewVars, use_imdb, use_tvmaze,
                 fetches, workers, cancelled, at_cancel, error_dialogs, toasts, ui_writers,
                 torn_read>>

\* lines 759-768, run by the main loop
IdleError ==
  /\ idle # <<>>
  /\ Head(idle).fn = "_show_error_dialog"
  /\ idle' = Tail(idle)
  /\ error_dialogs' = error_dialogs + 1
  /\ ui_writers' = ui_writers \cup {"main"}
  /\ UNCHANGED <<storeVars, episodeVars, scanVars, viewVars, use_imdb, use_tvmaze,
                 fetches, workers, visible, cancelled, at_cancel, toasts, torn_read>>

(***************************************************************************)
(* The steps of a fetch thread.                                            *)
(***************************************************************************)
\* the except clause letting the exception leave _fetch_movie_metadata
MovieExceptPropagates(t) ==
  [t EXCEPT !.pc = "except", !.raised = TRUE, !.failed = TRUE, !.before = <<>>,
            !.key = "", !.rec = EmptyRec, !.caller = ""]
\* lines 315-316: the except clause of _fetch_movie_metadata ends the item
MovieExcept(t) ==
  [t EXCEPT !.pc = "movie_check", !.i = @ + 1, !.raised = TRUE,
            !.failed = TRUE, !.before = <<>>,
            !.key = "", !.rec = EmptyRec, !.caller = ""]
\* lines 381-382: the except clause of _fetch_show_metadata ends the item
ShowExcept(t) ==
  [t EXCEPT !.pc = "show_check", !.j = @ + 1, !.raised = TRUE,
            !.failed = TRUE, !.before = <<>>,
            !.episodes_data = {}, !.e = 1,
            !.key = "", !.rec = EmptyRec, !.caller = ""]
\* an exception raised inside update_metadata reaches the caller's handler
Raise(t) == IF t.caller = "movie" THEN MovieExcept(t) ELSE ShowExcept(t)
\* update_metadata returns to line 313 (the movie is done) or to line 379
\* (the loop goes on to the next episode); its arguments are dead
Return(t) ==
  IF t.caller = "movie"
    THEN [t EXCEPT !.pc = "movie_check", !.i = @ + 1, !.before = <<>>,
                   !.key = "", !.rec = EmptyRec, !.caller = ""]
    ELSE [t EXCEPT !.pc = "episode_next", !.e = @ + 1,
                   !.key = "", !.rec = EmptyRec, !.caller = ""]

\* lines 435-440: the provider is constructed and the loop over self.movies
\* begins; get_imdb presents an error dialog itself when it fails (line 775)
ThreadStart(w) ==
  /\ w \in Threads
  /\ workers[w].pc = "start"
  /\ \E ok \in BOOLEAN :
       /\ ok => use_imdb
       /\ workers' = [workers EXCEPT ![w] =
            IF ok THEN [@ EXCEPT !.pc = "movie_check", !.it_movies = ItemsOf(movies)]
            ELSE [@ EXCEPT !.pc = "shows_start"]]
       /\ error_dialogs' = IF ~ok /\ use_imdb THEN error_dialogs + 1 ELSE error_dialogs
       /\ ui_writers' = IF ~ok /\ use_imdb THEN ui_writers \cup {"worker"} ELSE ui_writers
  /\ UNCHANGED <<storeVars, episodeVars, scanVars, viewVars, use_imdb, use_tvmaze, fetches,
                 visible, cancelled, at_cancel, idle, toasts, torn_read>>

\* lines 440-443: the next movie, unless the dialog is gone
MovieCheck(w) ==
  /\ w \in Threads
  /\ workers[w].pc = "movie_check"
  /\ workers' = [workers EXCEPT ![w] =
       IF @.i > Len(@.it_movies) THEN [@ EXCEPT !.pc = "shows_start"]
       ELSE IF ~visible[w] THEN [@ EXCEPT !.pc = "finally"]
       ELSE [@ EXCEPT !.pc = "movie_fetch", !.before = metadata, !.failed = FALSE,
                      !.tried = @ \cup {workers[w].it_movies[workers[w].i].path}]]
  /\ UNCHANGED <<storeVars, episodeVars, scanVars, viewVars, use_imdb, use_tvmaze, fetches,
                 visible, cancelled, at_cancel, idle, error_dialogs, toasts, ui_writers,
                 torn_read>>

\* lines 282-310: search, detail fetch and poster download; any of them may
\* raise, the search may find nothing
MovieFetch(w) ==
  /\ w \in Threads
  /\ workers[w].pc = "movie_fetch"
  /\ \E outcome \in {"raise", "none", "found"} :
       workers' = [workers EXCEPT ![w] =
         IF outcome = "raise" THEN MovieExcept(@)
         ELSE IF outcome = "none"
           THEN [@ EXCEPT !.pc = "movie_check", !.i = @ + 1, !.before = <<>>]
         ELSE [@ EXCEPT !.pc = "update_metadata", !.caller = "movie",
                        !.key = workers[w].it_movies[workers[w].i].path,
                        !.rec = FetchedMovie]]
  /\ UNCHANGED <<storeVars, episodeVars, scanVars, viewVars, use_imdb, use_tvmaze, fetches,
                 visible, cancelled, at_cancel, idle, error_dialogs, toasts, ui_writers,
                 torn_read>>

\* line 219, on the fetch thread
UpdateSet(w) ==
  /\ w \in Threads
  /\ workers[w].pc = "update_metadata"
  /\ \E s \in {SetRecord(Self, workers[w].key, workers[w].rec)} :
       /\ Commit(s)
       /\ workers' = [workers EXCEPT ![w] =
            IF s.err # "none" THEN Raise(@) ELSE [@ EXCEPT !.pc = "save_open"]]
  /\ UNCHANGED <<app, obs, episodeVars, scanVars, viewVars, use_imdb, use_tvmaze, fetches,
                 visible, cancelled, at_cancel, idle, error_dialogs, toasts, ui_writers,
                 torn_read>>

\* line 215, on the fetch thread: the open truncates the document, or fails
UpdateOpen(w) ==
  /\ w \in Threads
  /\ workers[w].pc = "save_open"
  /\ \E ok \in BOOLEAN :
       /\ Commit(IF ok THEN save_open(Self) ELSE Self)
       /\ workers' = [workers EXCEPT ![w] =
            IF ok THEN [@ EXCEPT !.pc = "save_write"] ELSE Raise(@)]
  /\ UNCHANGED <<app, obs, episodeVars, scanVars, viewVars, use_imdb, use_tvmaze, fetches,
                 visible, cancelled, at_cancel, idle, error_dialogs, toasts, ui_writers,
                 torn_read>>

\* line 216, on the fetch thread: self.metadata as it now is reaches the file
UpdateWrite(w) ==
  /\ w \in Threads
  /\ workers[w].pc = "save_write"
  /\ Commit(save_write(Self, json_dump(metadata, metadataType)))
  /\ workers' = [workers EXCEPT ![w] =
       [@ EXCEPT !.pc = "reload", !.saved = @ \cup DOMAIN metadata]]
  /\ UNCHANGED <<app, obs, episodeVars, scanVars, viewVars, use_imdb, use_tvmaze, fetches,
                 visible, cancelled, at_cancel, idle, error_dialogs, toasts, ui_writers,
                 torn_read>>

\* lines 222-223, on the fetch thread
UpdateReload(w) ==
  /\ w \in Threads
  /\ workers[w].pc = "reload"
  /\ \E s \in {Then(load_library(Self), populate_ui)} :
       /\ Commit(s)
       /\ workers' = [workers EXCEPT ![w] =
            IF s.err # "none" THEN Raise(@) ELSE Return(@)]
  /\ torn_read' = (torn_read \/ Incomplete(doc))
  /\ ui_writers' = ui_writers \cup {"worker"}
  /\ UNCHANGED <<app, obs, episodeVars, scanVars, viewVars, use_imdb, use_tvmaze, fetches,
                 visible, cancelled, at_cancel, idle, error_dialogs, toasts>>

\* lines 447-450: the provider is constructed and the loop over self.shows
\* begins; get_tvmaze presents an error dialog itself when it fails (line 783)
ShowsStart(w) ==
  /\ w \in Threads
  /\ workers[w].pc = "shows_start"
  /\ \E ok \in BOOLEAN :
       /\ ok => use_tvmaze
       /\ workers' = [workers EXCEPT ![w] =
            IF ok THEN [@ EXCEPT !.pc = "show_check", !.it_shows = ShowItems(shows)]
            ELSE [@ EXCEPT !.pc = "final_save"]]
       /\ error_dialogs' = IF ~ok /\ use_tvmaze THEN error_dialogs + 1 ELSE error_dialogs
       /\ ui_writers' = IF ~ok /\ use_tvmaze THEN ui_writers \cup {"worker"} ELSE ui_writers
  /\ UNCHANGED <<storeVars, episodeVars, scanVars, viewVars, use_imdb, use_tvmaze, fetches,
                 visible, cancelled, at_cancel, idle, toasts, torn_read>>

\* lines 450-453: the next show, unless the dialog is gone
ShowCheck(w) ==
  /\ w \in Threads
  /\ workers[w].pc = "show_check"
  /\ workers' = [workers EXCEPT ![w] =
       IF @.j > Len(@.it_shows) THEN [@ EXCEPT !.pc = "final_save"]
       ELSE IF ~visible[w] THEN [@ EXCEPT !.pc = "finally"]
       ELSE [@ EXCEPT !.pc = "show_fetch", !.before = metadata, !.failed = FALSE,
                      !.tried = @ \cup {workers[w].it_shows[workers[w].j].key}]]
  /\ UNCHANGED <<storeVars, episodeVars, scanVars, viewVars, use_imdb, use_tvmaze, fetches,
                 visible, cancelled, at_cancel, idle, error_dialogs, toasts, ui_writers,
                 torn_read>>

\* lines 322-345: search and poster download
ShowFetch(w) ==
  /\ w \in Threads
  /\ workers[w].pc = "show_fetch"
  /\ \E outcome \in {"raise", "none", "found"} :
       workers' = [workers EXCEPT ![w] =
         IF outcome = "raise" THEN ShowExcept(@)
         ELSE IF outcome = "none"
           THEN [@ EXCEPT !.pc = "show_check", !.j = @ + 1, !.before = <<>>]
         ELSE [@ EXCEPT !.pc = "show_store"]]
  /\ UNCHANGED <<storeVars, episodeVars, scanVars, viewVars, use_imdb, use_tvmaze, fetches,
                 visible, cancelled, at_cancel, idle, error_dialogs, toasts, ui_writers,
                 torn_read>>

\* lines 348-349: self.metadata[show_key] = show_metadata
ShowStore(w) ==
  /\ w \in Threads
  /\ workers[w].pc = "show_store"
  /\ \E s \in {SetRecord(Self, ShowKey(Str(workers[w].it_shows[workers[w].j].key)),
                         FetchedShow)} :
       /\ Commit(s)
       /\ workers' = [workers EXCEPT ![w] =
            IF s.err # "none" THEN ShowExcept(@) ELSE [@ EXCEPT !.pc = "show_episodes"]]
  /\ UNCHANGED <<app, obs, episodeVars, scanVars, viewVars, use_imdb, use_tvmaze, fetches,
                 visible, cancelled, at_cancel, idle, error_dialogs, toasts, ui_writers,
                 torn_read>>

\* line 352: the provider's episode list, or an exception
ShowEpisodes(w) ==
  /\ w \in Threads
  /\ workers[w].pc = "show_episodes"
  /\ \/ workers' = [workers EXCEPT ![w] = ShowExcept(@)]
     \/ \E data \in SUBSET EpisodePool :
          workers' = [workers EXCEPT ![w] =
            [@ EXCEPT !.pc = "episode_next", !.episodes_data = data, !.e = 1]]
  /\ UNCHANGED <<storeVars, episodeVars, scanVars, viewVars, use_imdb, use_tvmaze, fetches,
                 visible, cancelled, at_cancel, idle, error_dialogs, toasts, ui_writers,
                 torn_read>>

\* lines 355-379: the next local episode of the show; one the provider lists
\* under the same season and number is updated
EpisodeStep(t) ==
  LET eps == FlatEpisodes(t.it_shows[t.j].value)
  IN IF t.e > Len(eps)
       THEN [t EXCEPT !.pc = "show_check", !.j = @ + 1, !.episodes_data = {}, !.e = 1,
                      !.before = <<>>]
     ELSE LET ep == eps[t.e]
              n == _get_episode_number(ep.title)
          IN IF n = NoEpisode \/ n = 0 \/ t.episodes_data = {}
               THEN [t EXCEPT !.e = @ + 1]
             ELSE IF ~IsNumeric(ep.season) THEN ShowExcept(t)
             ELSE IF [season |-> int(ep.season), number |-> n] \in t.episodes_data
               THEN [t EXCEPT !.pc = "update_metadata", !.caller = "episode",
                              !.key = ep.path,
                              !.rec = FetchedEpisode(t.it_shows[t.j].key)]
             ELSE [t EXCEPT !.e = @ + 1]

EpisodeNext(w) ==
  /\ w \in Threads
  /\ workers[w].pc = "episode_next"
  /\ workers' = [workers EXCEPT ![w] = EpisodeStep(@)]
  /\ UNCHANGED <<storeVars, episodeVars, scanVars, viewVars, use_imdb, use_tvmaze, fetches,
                 visible, cancelled, at_cancel, idle, error_dialogs, toasts, ui_writers,
                 torn_read>>

\* line 457, the open of line 215: it truncates the document, or fails
FinalOpen(w) ==
  /\ w \in Threads
  /\ workers[w].pc = "final_save"
  /\ \E ok \in BOOLEAN :
       /\ Commit(IF ok THEN save_open(Self) ELSE Self)
       /\ workers' = [workers EXCEPT ![w].pc = IF ok THEN "final_write" ELSE "except"]
  /\ UNCHANGED <<app, obs, episodeVars, scanVars, viewVars, use_imdb, use_tvmaze, fetches,
                 visible, cancelled, at_cancel, idle, error_dialogs, toasts, ui_writers,
                 torn_read>>

\* line 457, the dump of line 216
FinalWrite(w) ==
  /\ w \in Threads
  /\ workers[w].pc = "final_write"
  /\ Commit(save_write(Self, json_dump(metadata, metadataType)))
  /\ workers' = [workers EXCEPT ![w] =
       [@ EXCEPT !.pc = "post", !.saved = @ \cup DOMAIN metadata]]
  /\ UNCHANGED <<app, obs, episodeVars, scanVars, viewVars, use_imdb, use_tvmaze, fetches,
                 visible, cancelled, at_cancel, idle, error_dialogs, toasts, ui_writers,
                 torn_read>>

\* lines 460-461
PostFinish(w) ==
  /\ w \in Threads
  /\ workers[w].pc = "post"
  /\ idle' = idle \o << [fn |-> "_finish_metadata_refresh", w |-> w],
                        [fn |-> "close", w |-> w] >>
  /\ workers' = [workers EXCEPT ![w] =
       [@ EXCEPT !.pc = "finally", !.posted_finish = TRUE,
                 !.after_cancel = cancelled[w]]]
  /\ UNCHANGED <<storeVars, episodeVars, scanVars, viewVars, use_imdb, use_tvmaze, fetches,
                 visible, cancelled, at_cancel, error_dialogs, toasts, ui_writers, torn_read>>

\* lines 463-464
PostError(w) ==
  /\ w \in Threads
  /\ workers[w].pc = "except"
  /\ idle' = Append(idle, [fn |-> "_show_error_dialog", w |-> w])
  /\ workers' = [workers EXCEPT ![w].pc = "finally"]
  /\ UNCHANGED <<storeVars, episodeVars, scanVars, viewVars, use_imdb, use_tvmaze, fetches,
                 visible, cancelled, at_cancel, error_dialogs, toasts, ui_writers, torn_read>>

\* the finally clause without its idle_add
PostCloseDropped(w) ==
  /\ w \in Threads
  /\ workers[w].pc = "finally"
  /\ workers' = [workers EXCEPT ![w].pc = "done"]
  /\ UNCHANGED <<storeVars, episodeVars, scanVars, viewVars, use_imdb, use_tvmaze, fetches,
                 visible, cancelled, at_cancel, idle, error_dialogs, toasts, ui_writers,
                 torn_read>>

\* lines 465-466
PostClose(w) ==
  /\ w \in Threads
  /\ workers[w].pc = "finally"
  /\ idle' = Append(idle, [fn |-> "close", w |-> w])
  /\ workers' = [workers EXCEPT ![w].pc = "done"]
  /\ UNCHANGED <<storeVars, episodeVars, scanVars, viewVars, use_imdb, use_tvmaze, fetches,
                 visible, cancelled, at_cancel, error_dialogs, toasts, ui_writers, torn_read>>

\* lines 434-466: one step of fetch_metadata_async
ThreadStep(w) ==
  \/ ThreadStart(w)
  \/ MovieCheck(w)
  \/ MovieFetch(w)
  \/ UpdateSet(w)
  \/ UpdateOpen(w)
  \/ UpdateWrite(w)
  \/ UpdateReload(w)
  \/ ShowsStart(w)
  \/ ShowCheck(w)
  \/ ShowFetch(w)
  \/ ShowStore(w)
  \/ ShowEpisodes(w)
  \/ EpisodeNext(w)
  \/ FinalOpen(w)
  \/ FinalWrite(w)
  \/ PostFinish(w)
  \/ PostError(w)
  \/ PostClose(w)

Next ==
  \/ StartFetch
  \/ CancelFetch
  \/ IdleFinish
  \/ IdleClose
  \/ IdleError
  \/ \E w \in 1..MaxFetches : ThreadStep(w)

Spec == Init /\ [][Next]_vars

(***************************************************************************)
(* Overlapping fetches. The window takes no input while a progress dialog  *)
(* is open, so a second fetch starts only after the dialog of the first is *)
(* gone: after a cancel, which leaves the first thread running until its   *)
(* next look at the dialog. Here 'use-tvmaze' is off and the threads       *)
(* process movies alone.                                                   *)
(***************************************************************************)
InitRacing == Started(NoFile, TRUE, FALSE)

StartAgain == on_fetch_metadata(MaxRacing)

\* lines 434-466 with the loop over the shows never entered
MovieThreadStep(w) ==
  \/ ThreadStart(w)
  \/ MovieCheck(w)
  \/ MovieFetch(w)
  \/ UpdateSet(w)
  \/ UpdateOpen(w)
  \/ UpdateWrite(w)
  \/ UpdateReload(w)
  \/ ShowsStart(w)
  \/ FinalOpen(w)
  \/ FinalWrite(w)
  \/ PostFinish(w)
  \/ PostError(w)
  \/ PostClose(w)

NextRacing ==
  \/ StartAgain
  \/ CancelFetch
  \/ IdleFinish
  \/ IdleClose
  \/ IdleError
  \/ \E w \in 1..MaxRacing : MovieThreadStep(w)

SpecRacing == InitRacing /\ [][NextRacing]_vars

(***************************************************************************)
(* One fetch under fair scheduling, 'use-tvmaze' off. The thread is a      *)
(* daemon thread the operating system keeps scheduling, its provider calls *)
(* return or raise, and the GLib main loop runs every callback queued with *)
(* idle_add. The user's answers are not fair: they may never come.         *)
(***************************************************************************)
NextLive ==
  \/ StartFetch
  \/ CancelFetch
  \/ IdleFinish
  \/ IdleClose
  \/ IdleError
  \/ \E w \in 1..MaxFetches : MovieThreadStep(w)

SpecLive ==
  /\ InitRacing
  /\ [][NextLive]_vars
  /\ \A w \in 1..MaxFetches : WF_vars(MovieThreadStep(w))
  /\ WF_vars(IdleFinish)
  /\ WF_vars(IdleClose)
  /\ WF_vars(IdleError)

(***************************************************************************)
(* The interactive view: search, sort and manual edit, on the main loop's  *)
(* thread alone. Here the text of a str is the sequence of its characters, *)
(* a number is ["float", its digits] and a list of strs is ["list", the    *)
(* sequence of its elements' character sequences].                         *)
(***************************************************************************)
\* sub in s
Contains(s, sub) ==
  \E i \in 0..(Len(s) - Len(sub)) : SubSeq(s, i + 1, i + Len(sub)) = sub

\* float(v) in tenths, or the exception it raises: a number is itself, a
\* str is parsed (digits with at most one point, blanks around them ignored)
float(v) ==
  LET s == Strip(v[2])
      p == IF \E i \in 1..Len(s) : s[i] = "."
             THEN CHOOSE i \in 1..Len(s) : s[i] = "." /\ \A j \in 1..(i - 1) : s[j] # "."
             ELSE Len(s) + 1
      whole == SubSeq(s, 1, p - 1)
      frac == SubSeq(s, p + 1, Len(s))
  IN IF v[1] \notin {"str", "float"}
       THEN [err |-> "TypeError", kind |-> "num", value |-> 0]
     ELSE IF whole \o frac = <<>>
             \/ \E i \in 1..Len(whole \o frac) : ~IsDigit((whole \o frac)[i])
       THEN [err |-> "ValueError", kind |-> "num", value |-> 0]
     ELSE [err |-> "none", kind |-> "num",
           value |-> 10 * int(whole) + (IF frac = <<>> THEN 0 ELSE DigitValue(frac[1]))]

\* lines 810 and 812: float(md.get('rating', 0) or 0)
RatingKey(md) ==
  LET v == IF "rating" \in DOMAIN md THEN md["rating"] ELSE Val("float", <<"0">>)
  IN IF v[1] = "NoneType" THEN float(Val("float", <<"0">>))
     ELSE IF v[1] \in {"str", "list"} /\ v[2] = <<>> THEN float(Val("float", <<"0">>))
     ELSE float(v)

\* lines 796 and 843: md.get('title', x['title']).lower(), a str's
\* characters as numbers in the order of their code points
CodePoints == <<" ", ".", "0", "1", "2", "3", "4", "5", "6", "7", "8", "9">>
                \o UpperAlpha \o LowerAlpha
Code(c) == CHOOSE i \in 1..Len(CodePoints) : CodePoints[i] = c
TitleKey(entry) ==
  LET v == IF "title" \in DOMAIN entry.metadata THEN entry.metadata["title"]
           ELSE Val("str", entry.title)
  IN IF v[1] # "str" THEN [err |-> "AttributeError", kind |-> "str", value |-> <<>>]
     ELSE [err |-> "none", kind |-> "str",
           value |-> [i \in 1..Len(v[2]) |-> Code(LowerChar(v[2][i]))]]

\* lines 803 and 805: md.get('year', '0'); a str and a number do not compare
YearKey(md) ==
  LET v == IF "year" \in DOMAIN md THEN md["year"] ELSE Val("str", <<"0">>)
  IN IF v[1] = "str"
       THEN [err |-> "none", kind |-> "str",
             value |-> [i \in 1..Len(v[2]) |-> Code(v[2][i])]]
     ELSE IF v[1] = "float" THEN float(v)
     ELSE [err |-> "none", kind |-> v[1], value |-> 0]

\* a < b on strs, as sequences of code points
RECURSIVE StrLess(_, _)
StrLess(a, b) ==
  IF a = <<>> THEN b # <<>>
  ELSE IF b = <<>> THEN FALSE
  ELSE IF Head(a) # Head(b) THEN Head(a) < Head(b)
  ELSE StrLess(Tail(a), Tail(b))

\* a < b on keys, and whether it raises TypeError
KeyLess(a, b) == IF a.kind = "num" THEN a.value < b.value ELSE StrLess(a.value, b.value)
Unorderable(a, b) == a.kind # b.kind \/ a.kind \notin {"num", "str"}

\* list.insert keeping the order of equal keys: sorted() is stable
RECURSIVE Insert(_, _)
Insert(sorted, x) ==
  IF sorted = <<>> THEN <<x>>
  ELSE IF KeyLess(x.key, sorted[Len(sorted)].key)
    THEN Append(Insert(SubSeq(sorted, 1, Len(sorted) - 1), x), sorted[Len(sorted)])
  ELSE Append(sorted, x)
RECURSIVE InsertAll(_, _)
InsertAll(sorted, xs) ==
  IF xs = <<>> THEN sorted ELSE InsertAll(Insert(sorted, Head(xs)), Tail(xs))

\* line 791: sorted(items, key=key_func), keys[i] being key_func(items[i])
sort_items(items, keys) ==
  IF \E i \in 1..Len(keys) : keys[i].err # "none"
    THEN [err |-> keys[CHOOSE i \in 1..Len(keys) :
                         keys[i].err # "none"
                         /\ \A j \in 1..(i - 1) : keys[j].err = "none"].err,
          value |-> items]
  ELSE IF \E i, j \in 1..Len(keys) : i # j /\ Unorderable(keys[i], keys[j])
    THEN [err |-> "TypeError", value |-> items]
  ELSE LET xs == InsertAll(<<>>, [i \in 1..Len(items) |->
                                   [item |-> items[i], key |-> keys[i]]])
       IN [err |-> "none", value |-> [i \in 1..Len(xs) |-> xs[i].item]]

\* the characters of a show's name
ShowChars(show_name) ==
  ShowsListing[CHOOSE i \in 1..Len(ShowsListing) :
                 Join(ShowsListing[i].name) = show_name].name

\* lines 786-815
on_view_sorting(w, sort_type) ==
  LET showmd(i) == Get(w.metadata, ShowKey(Str(w.shows[i].key)))
      mk == [i \in 1..Len(w.movies) |->
               IF sort_type = "az" THEN TitleKey(w.movies[i])
               ELSE IF sort_type = "year" THEN YearKey(w.movies[i].metadata)
               ELSE RatingKey(w.movies[i].metadata)]
      sk == [i \in 1..Len(w.shows) |->
               IF sort_type = "az"
                 THEN TitleKey([title |-> ShowChars(w.shows[i].key), metadata |-> EmptyRec])
               ELSE IF sort_type = "year" THEN YearKey(showmd(i))
               ELSE RatingKey(showmd(i))]
      sm == sort_items(w.movies, mk)
      ss == sort_items(w.shows, sk)
  IN IF sort_type \notin {"az", "year", "rating"} THEN populate_ui(w)
     ELSE IF sm.err # "none" THEN [w EXCEPT !.err = sm.err]
     ELSE IF ss.err # "none" THEN [w EXCEPT !.movies = sm.value, !.err = ss.err]
     ELSE populate_ui([w EXCEPT !.movies = sm.value, !.shows = ss.value])

\* lines 847-848 and 860-861: any(search_text in g.lower() for g in
\* md.get('genres', [])); iterating a str yields its characters
GenreMatch(md, search_text) ==
  LET v == IF "genres" \in DOMAIN md THEN md["genres"] ELSE Val("list", <<>>)
      gs == IF v[1] = "list" THEN v[2] ELSE [i \in 1..Len(v[2]) |-> <<v[2][i]>>]
  IN IF v[1] \notin {"list", "str"} THEN "TypeError"
     ELSE IF \E i \in 1..Len(gs) : Contains(Lower(gs[i]), search_text) THEN "yes"
     ELSE "no"

\* lines 841-849: whether the movie is added, or the exception raised
MovieMatch(movie, search_text, mode) ==
  IF mode = 0
    THEN IF TitleKey(movie).err # "none" THEN TitleKey(movie).err
         ELSE IF Contains(TitleKey(movie).value,
                          [i \in 1..Len(search_text) |-> Code(search_text[i])])
           THEN "yes" ELSE "no"
    ELSE GenreMatch(movie.metadata, search_text)

\* lines 853-862
ShowMatch(w, show_name, search_text, mode) ==
  IF mode = 0
    THEN IF Contains(Lower(ShowChars(show_name)), search_text) THEN "yes" ELSE "no"
    ELSE GenreMatch(Get(w.metadata, ShowKey(Str(show_name))), search_text)

\* lines 840-862: the cards added one by one until an exception, if any
RECURSIVE AddMatching(_, _, _)
AddMatching(acc, ids, verdicts) ==
  IF ids = <<>> \/ Head(verdicts) \notin {"yes", "no"} THEN acc
  ELSE AddMatching(IF Head(verdicts) = "yes" THEN Append(acc, Head(ids)) ELSE acc,
                   Tail(ids), Tail(verdicts))
FirstError(verdicts) ==
  IF \E i \in 1..Len(verdicts) : verdicts[i] \notin {"yes", "no"}
    THEN verdicts[CHOOSE i \in 1..Len(verdicts) :
                    /\ verdicts[i] \notin {"yes", "no"}
                    /\ \A j \in 1..(i - 1) : verdicts[j] \in {"yes", "no"}]
    ELSE "none"

\* lines 825-862, the entry holding `text` and the selector `mode`
on_search_changed(w, text, mode) ==
  LET search_text == Lower(text)
      mv == [i \in 1..Len(w.movies) |-> MovieMatch(w.movies[i], search_text, mode)]
      sv == [i \in 1..Len(w.shows) |->
               ShowMatch(w, w.shows[i].key, search_text, mode)]
      mb == AddMatching(<<>>, [i \in 1..Len(w.movies) |-> w.movies[i].path], mv)
      sb == AddMatching(<<>>, [i \in 1..Len(w.shows) |-> w.shows[i].key], sv)
  IN IF search_text = <<>> THEN populate_ui(w)
     ELSE IF FirstError(mv) # "none"
       THEN [w EXCEPT !.movies_box = mb, !.shows_box = <<>>, !.err = FirstError(mv)]
     ELSE [w EXCEPT !.movies_box = mb, !.shows_box = sb, !.err = FirstError(sv)]

\* lines 635-641: the response "save" with the entry holding new_value
on_response(w, dialog, new_value) ==
  update_metadata(w, dialog.path, Put(dialog.metadata, dialog.key, new_value))

\* Records of the store when the view starts: a fetched movie, a movie whose
\* provider had no rating, a fetched show.
Comedy == <<"C","o","m","e","d","y">>
ViewMovieA ==
  [f \in {"title", "rating", "genres", "year"} |->
     IF f = "title" THEN Val("str", <<"M","a","x">>)
     ELSE IF f = "rating" THEN Val("float", <<"7",".","5">>)
     ELSE IF f = "year" THEN Val("float", <<"1","9">>)
     ELSE Val("list", <<Comedy>>)]
ViewMovieB ==
  [f \in {"title", "rating", "genres"} |->
     IF f = "title" THEN Val("str", <<"A","m">>)
     ELSE IF f = "rating" THEN PyNone
     ELSE Val("str", Comedy)]
ViewShow ==
  [f \in {"title", "rating", "genres"} |->
     IF f = "title" THEN Val("str", <<"M","y">>)
     ELSE IF f = "rating" THEN Val("float", <<"8">>)
     ELSE Val("list", <<Comedy>>)]
ViewMovieRecs == {EmptyRec, ViewMovieA, ViewMovieB}
ViewShowRecs == {EmptyRec, ViewShow}
ViewStore(a, b, x, y) ==
  LET p == <<[k |-> M1, r |-> a], [k |-> M2, r |-> b],
             [k |-> "show:X", r |-> x], [k |-> "show:Y", r |-> y]>>
      q == SelectSeq(p, LAMBDA e : e.r # EmptyRec)
  IN [k \in {q[i].k : i \in 1..Len(q)} |->
        q[CHOOSE i \in 1..Len(q) : q[i].k = k].r]

\* What the user types and picks.
Queries == {<<>>, <<"m">>, <<"C","O","M">>, <<"y">>}
EditKeys == {"rating"}
EditTexts == {<<"g">>, <<"9">>}
SortTypes == {"az", "year", "rating"}

InitView ==
  /\ \E a \in ViewMovieRecs, b \in ViewMovieRecs, x \in ViewShowRecs, y \in ViewShowRecs :
       \E w \in {Constructed(FileWith(json_dump(ViewStore(a, b, x, y), "dict")))} :
         /\ metadata = w.metadata
         /\ metadataType = w.metadataType
         /\ doc = w.doc
         /\ movies = w.movies
         /\ shows = w.shows
         /\ movies_box = w.movies_box
         /\ shows_box = w.shows_box
  /\ app = "ready"
  /\ obs = NoObs
  /\ filename = <<>>
  /\ episode_number = NoEpisode
  /\ show_dir = <<>>
  /\ seasons = <<>>
  /\ NoFetch
  /\ NoView

\* the user changes the text of the search entry ('search-changed')
SearchText ==
  /\ ~edit_dialog.open
  /\ \E text \in Queries :
       /\ text # search_entry
       /\ search_entry' = text
       /\ \E w \in {on_search_changed(Self, text, search_mode)} :
            /\ Commit(w)
            /\ obs' = [NoObs EXCEPT !.op = "on_search_changed", !.err = w.err]
  /\ UNCHANGED <<app, episodeVars, scanVars, fetchVars, search_mode, edit_dialog>>

\* the user picks the other search mode ('notify::selected')
SearchMode ==
  /\ ~edit_dialog.open
  /\ search_mode' = 1 - search_mode
  /\ \E w \in {on_search_changed(Self, search_entry, 1 - search_mode)} :
       /\ Commit(w)
       /\ obs' = [NoObs EXCEPT !.op = "on_search_changed", !.err = w.err]
  /\ UNCHANGED <<app, episodeVars, scanVars, fetchVars, search_entry, edit_dialog>>

\* the user picks a sort order
Sort ==
  /\ ~edit_dialog.open
  /\ \E sort_type \in SortTypes :
       \E w \in {on_view_sorting(Self, sort_type)} :
         /\ Commit(w)
         /\ obs' = [NoObs EXCEPT !.op = "on_view_sorting", !.key = sort_type,
                                 !.err = w.err]
  /\ UNCHANGED <<app, episodeVars, scanVars, fetchVars, viewVars>>

\* the user asks to edit a field of a movie of the catalog
EditOpen ==
  /\ ~edit_dialog.open
  /\ ~ModalOpen
  /\ \E m \in 1..Len(movies), key \in EditKeys :
       edit_dialog' = EditDialog(movies[m], key)
  /\ UNCHANGED <<storeVars, episodeVars, scanVars, fetchVars, search_entry, search_mode>>

\* the user answers "save"
EditSaveText ==
  /\ edit_dialog.open
  /\ \E text \in EditTexts :
       \E w \in {on_response(Self, edit_dialog, Val("str", text))} :
         /\ Commit(w)
         /\ obs' = [NoObs EXCEPT !.op = "edit_metadata", !.key = edit_dialog.path,
                                 !.err = w.err]
  /\ edit_dialog' = NoDialog
  /\ UNCHANGED <<app, episodeVars, scanVars, fetchVars, search_entry, search_mode>>

\* the user answers "cancel"
EditCancel ==
  /\ edit_dialog.open
  /\ edit_dialog' = NoDialog
  /\ obs' = [NoObs EXCEPT !.op = "cancel"]
  /\ UNCHANGED <<metadata, metadataType, doc, movies, shows, movies_box, shows_box, app,
                 episodeVars, scanVars, fetchVars, search_entry, search_mode>>

NextView ==
  \/ SearchText
  \/ SearchMode
  \/ Sort
  \/ EditOpen
  \/ EditSaveText
  \/ EditCancel

SpecView == InitView /\ [][NextView]_vars

(***************************************************************************)
(* Editing while a fetch runs. The progress dialog and the edit dialog are *)
(* modal, so the user edits only when no progress dialog is open: before a *)
(* fetch, after it, or after a cancel, which leaves the thread running     *)
(* until its next look at the dialog. 'use-tvmaze' is off.                 *)
(***************************************************************************)
NextEdit ==
  \/ StartFetch
  \/ CancelFetch
  \/ IdleFinish
  \/ IdleClose
  \/ IdleError
  \/ \E w \in 1..MaxFetches : MovieThreadStep(w)
  \/ EditOpen
  \/ EditSaveText
  \/ EditCancel

SpecEdit == InitRacing /\ [][NextEdit]_vars

(***************************************************************************)
(* C1. Round trip of the store: from every store state the program can be  *)
(* in, update_metadata(key, record), whose last store step is the load of  *)
(* load_library, leaves key mapped to exactly record and every other key   *)
(* mapped to what it was mapped to before; the update raises nothing, and  *)
(* a further load of the document written yields the same mapping.         *)
(***************************************************************************)
RoundTrip ==
  [][obs'.op = "update_metadata" =>
       /\ obs'.err = "none"
       /\ metadataType' = "dict"
       /\ DOMAIN metadata' = (DOMAIN metadata) \cup {obs'.key}
       /\ metadata'[obs'.key] = obs'.rec
       /\ \A k \in (DOMAIN metadata) \ {obs'.key} : metadata'[k] = metadata[k]
       /\ json_load(doc').status = "ok"
       /\ json_load(doc').type = "dict"
       /\ json_load(doc').value = metadata']_vars

\* An update has replaced a record among other records, and one of them was
\* held in memory only.
RoundTripWitness ==
  /\ obs.op = "update_metadata"
  /\ obs.key = X1
  /\ obs.rec = RecEpGenres
  /\ DOMAIN metadata = {X1, "show:X", "show:None"}
  /\ metadata["show:X"] = RecShowB

(***************************************************************************)
(* C2. Merged read: get_episode_metadata(path) returns, when the record at *)
(* path has a true is_episode, the record at show:<show_name> overlaid by  *)
(* the episode record (every field of the episode record with the episode's*)
(* value, every other field of the show record with the show's value), and *)
(* otherwise the record at path as it is (the empty record when the key is *)
(* absent); the read changes neither self.metadata nor the document.       *)
(***************************************************************************)
MergedRead ==
  [][obs'.op = "get_episode_metadata" =>
       LET ep == IF obs'.key \in DOMAIN metadata THEN metadata[obs'.key] ELSE EmptyRec
           name == IF "show_name" \in DOMAIN ep THEN ep["show_name"] ELSE PyNone
           key == "show:" \o name[2]
           show == IF key \in DOMAIN metadata THEN metadata[key] ELSE EmptyRec
           ret == obs'.ret
       IN /\ metadata' = metadata
          /\ metadataType' = metadataType
          /\ doc' = doc
          /\ IF "is_episode" \in DOMAIN ep /\ Truthy(ep["is_episode"])
               THEN /\ DOMAIN ret = (DOMAIN show) \cup (DOMAIN ep)
                    /\ \A f \in DOMAIN ep : ret[f] = ep[f]
                    /\ \A f \in (DOMAIN show) \ (DOMAIN ep) : ret[f] = show[f]
               ELSE ret = ep]_vars

\* A read has merged an episode record with a show record that has a field
\* of the same name and a field of its own.
MergedReadWitness ==
  /\ obs.op = "get_episode_metadata"
  /\ obs.key = X1
  /\ X1 \in DOMAIN metadata
  /\ metadata[X1] = RecEpGenres
  /\ "show:X" \in DOMAIN metadata
  /\ metadata["show:X"] = RecShowB
  /\ obs.ret = [f \in {"is_episode", "show_name", "genres", "title"} |->
                  IF f = "title" THEN Str("Show") ELSE RecEpGenres[f]]

(***************************************************************************)
(* C8. Tolerant load: load_library never raises to its caller, and when    *)
(* the document it is given is missing, empty or malformed (anything but   *)
(* the text of a JSON object) it leaves self.metadata the empty mapping.   *)
(***************************************************************************)
TolerantLoad ==
  [][obs'.op = "load_library" =>
       /\ obs'.err = "none"
       /\ metadataType' = "dict"
       /\ (~doc.exists \/ ~IsObjectText(doc.text)) => metadata' = <<>>]_vars

(***************************************************************************)
(* C9. Episode-number extraction applies three patterns in priority order: *)
(* a stem that contains S<digits>E<digits> anywhere gives the digits after *)
(* that E; otherwise one that contains E<digits> anywhere gives those      *)
(* digits; otherwise one that ends in digits gives the trailing digits;    *)
(* otherwise there is no episode number.                                   *)
(***************************************************************************)
FirstWhere(s, M(_, _)) == CHOOSE i \in 1..Len(s) :
                            M(s, i).matched /\ \A j \in 1..(i - 1) : ~M(s, j).matched
ByPriority(s) ==
  IF \E i \in 1..Len(s) : MatchSE(s, i).matched
    THEN int(MatchSE(s, FirstWhere(s, MatchSE)).group)
  ELSE IF \E i \in 1..Len(s) : MatchE(s, i).matched
    THEN int(MatchE(s, FirstWhere(s, MatchE)).group)
  ELSE IF \E i \in 1..Len(s) : MatchTrailing(s, i).matched
    THEN int(MatchTrailing(s, FirstWhere(s, MatchTrailing)).group)
  ELSE NoEpisode

EpisodeByPriority ==
  obs.op = "_get_episode_number" => episode_number = ByPriority(filename)

(***************************************************************************)
(* C10. Season assignment: after the scan of a show directory every video  *)
(* file directly in it is in the catalog under season "1" and every video  *)
(* file of a subdirectory `Season N` is under season "N", whatever the     *)
(* directory holds and in whatever order it is listed; no file is dropped. *)
(***************************************************************************)
InSeason(ss, k, path) ==
  HasKey(ss, k) /\ \E i \in 1..Len(Lookup(ss, k)) : Lookup(ss, k)[i].path = path

EveryEpisodeKept ==
  obs.op = "scan" =>
    \A i \in 1..Len(show_dir) :
      /\ IsVideoFile(show_dir[i]) => InSeason(seasons, SeasonOne, show_dir[i].path)
      /\ IsSeasonDir(show_dir[i]) =>
           \A j \in 1..Len(show_dir[i].files) :
             IsVideoFile(show_dir[i].files[j]) =>
               InSeason(seasons, season_num(show_dir[i]), show_dir[i].files[j].path)


(***************************************************************************)
(* C3. Batch failure isolation: a fetch thread that has run to its end     *)
(* without the user cancelling has taken up every movie of the list and    *)
(* every show of the dict it iterates, whatever was raised while an        *)
(* earlier item was processed (by the search, the detail fetch, the poster *)
(* download or the store update); the lists are the whole library.         *)
(***************************************************************************)
BatchOf(t) ==
  {t.it_movies[i].path : i \in 1..Len(t.it_movies)}
    \cup {t.it_shows[j].key : j \in 1..Len(t.it_shows)}

FailureIsolation ==
  \A w \in Threads :
    (workers[w].pc = "done" /\ ~cancelled[w]) =>
      /\ BatchOf(workers[w]) \subseteq workers[w].tried
      /\ workers[w].it_movies \in {<<>>, ItemsOf(ScannedMovies.movies)}
      /\ workers[w].it_shows \in {<<>>, ShowItems(ScannedShows.shows)}

\* C3: a finished, uncancelled fetch in which an item raised and all two
\* movies and two shows were taken up
FailureIsolationWitness ==
  \E w \in Threads :
    /\ workers[w].pc = "done"
    /\ ~cancelled[w]
    /\ workers[w].raised
    /\ workers[w].tried = {M1, M2, "X", "Y"}
    /\ M1 \notin DOMAIN metadata
    /\ M2 \in DOMAIN metadata

(***************************************************************************)
(* C4. Worker isolation: only the main loop's thread rebuilds the catalog, *)
(* redraws the card boxes or presents a dialog; a fetch thread does none   *)
(* of these itself.                                                        *)
(***************************************************************************)
WorkerIsolation == "worker" \notin ui_writers

(***************************************************************************)
(* C5. Cooperative cancellation: a fetch that has taken up an item and     *)
(* whose dialog the user has closed does not queue                         *)
(* _finish_metadata_refresh afterwards, and when its thread has stopped    *)
(* without queueing it, every show-level record the in-memory store held   *)
(* when the user closed the dialog is in the persisted document.           *)
(***************************************************************************)
Persisted(k) ==
  /\ json_load(doc).status = "ok"
  /\ k \in DOMAIN json_load(doc).value
  /\ json_load(doc).value[k] = metadata[k]

Present(k) == json_load(doc).status = "ok" /\ k \in DOMAIN json_load(doc).value

CooperativeCancel ==
  \A w \in Threads :
    /\ ~(workers[w].after_cancel /\ workers[w].tried # {})
    /\ (workers[w].pc = "done" /\ cancelled[w] /\ ~workers[w].posted_finish) =>
         \A i \in 1..Len(ShowNames) :
           ShowKey(Str(ShowNames[i])) \in at_cancel[w] =>
             Present(ShowKey(Str(ShowNames[i])))

(***************************************************************************)
(* C6. Persist on every mutation: whenever no fetch thread is inside an    *)
(* item (each is before its first item, between two items, or past its     *)
(* last), every show-level record of the in-memory store is in the         *)
(* persisted document.                                                     *)
(***************************************************************************)
BetweenItems ==
  \A w \in Threads :
    workers[w].pc \in {"start", "movie_check", "shows_start", "show_check",
                       "final_save", "done"}

ShowRecordsPersisted ==
  BetweenItems =>
    \A i \in 1..Len(ShowNames) :
      ShowKey(Str(ShowNames[i])) \in DOMAIN metadata =>
        Persisted(ShowKey(Str(ShowNames[i])))

(***************************************************************************)
(* C7. Atomic save: no load, on any thread, finds the document empty or    *)
(* partly written.                                                         *)
(***************************************************************************)
AtomicSave == ~torn_read


(***************************************************************************)
(* C11. Sort by rating: the 'rating' sort completes whatever the ratings   *)
(* are, leaves movies and shows in ascending order of numeric rating, a    *)
(* missing, null or non-numeric rating counting as 0.0, keeps the same     *)
(* entries and changes neither the store nor the document.                 *)
(***************************************************************************)
RatingOrZero(md) == IF RatingKey(md).err = "none" THEN RatingKey(md).value ELSE 0

SortByRating ==
  [][(obs'.op = "on_view_sorting" /\ obs'.key = "rating") =>
       /\ obs'.err = "none"
       /\ \A i, j \in 1..Len(movies') :
            i < j => RatingOrZero(movies'[i].metadata) <= RatingOrZero(movies'[j].metadata)
       /\ \A i, j \in 1..Len(shows') :
            i < j => RatingOrZero(Get(metadata', ShowKey(Str(shows'[i].key))))
                       <= RatingOrZero(Get(metadata', ShowKey(Str(shows'[j].key))))
       /\ Len(movies') = Len(movies)
       /\ {movies'[i] : i \in 1..Len(movies')} = {movies[i] : i \in 1..Len(movies)}
       /\ Len(shows') = Len(shows)
       /\ {shows'[i] : i \in 1..Len(shows')} = {shows[i] : i \in 1..Len(shows)}
       /\ metadata' = metadata
       /\ doc' = doc]_vars

(***************************************************************************)
(* C12. Search: an empty query renders every movie and show; a query in    *)
(* title mode renders exactly the movies and shows whose title (the        *)
(* record's title if it has one, else the name derived from the path)      *)
(* contains it, ignoring case; in genre mode exactly those with a genre    *)
(* that contains it; the search raises nothing and changes neither the     *)
(* catalog nor the store.                                                  *)
(***************************************************************************)
TitleHas(md, derived, q) ==
  Contains(Lower(IF "title" \in DOMAIN md /\ md["title"][1] = "str"
                   THEN md["title"][2] ELSE derived), Lower(q))
GenreHas(md, q) ==
  /\ "genres" \in DOMAIN md
  /\ \/ md["genres"][1] = "str" /\ Contains(Lower(md["genres"][2]), Lower(q))
     \/ md["genres"][1] = "list"
          /\ \E i \in 1..Len(md["genres"][2]) :
               Contains(Lower(md["genres"][2][i]), Lower(q))
Wanted(md, derived, q, mode) ==
  q = <<>> \/ (IF mode = 0 THEN TitleHas(md, derived, q) ELSE GenreHas(md, q))

SearchRenders ==
  [][obs'.op = "on_search_changed" =>
       /\ obs'.err = "none"
       /\ {movies_box'[i] : i \in 1..Len(movies_box')}
            = {movies[i].path : i \in {n \in 1..Len(movies) :
                 Wanted(movies[n].metadata, movies[n].title, search_entry', search_mode')}}
       /\ {shows_box'[i] : i \in 1..Len(shows_box')}
            = {shows[i].key : i \in {n \in 1..Len(shows) :
                 Wanted(Get(metadata, ShowKey(Str(shows[n].key))),
                        ShowChars(shows[n].key), search_entry', search_mode')}}
       /\ movies' = movies /\ shows' = shows
       /\ metadata' = metadata /\ doc' = doc]_vars

(***************************************************************************)
(* C19. The rendered view matches the query: whenever no handler has       *)
(* raised, the cards shown are those the search itself would render for    *)
(* the current text and mode.                                              *)
(***************************************************************************)
ViewMatchesQuery ==
  obs.err = "none" =>
    /\ movies_box = on_search_changed(Self, search_entry, search_mode).movies_box
    /\ shows_box = on_search_changed(Self, search_entry, search_mode).shows_box

\* C13: a saved edit of field k of an entry leaves at the entry's path the
\* record the store held there with k set to the new value: every other field
\* of that record, and every other record, is as it was.
EditOneField ==
  [][(edit_dialog.open /\ ~edit_dialog'.open /\ obs'.op = "edit_metadata"
        /\ obs'.err = "none")
     => LET path == edit_dialog.path
            key == edit_dialog.key
            stored == Get(metadata, path)
        IN /\ path \in DOMAIN metadata'
           /\ DOMAIN Get(metadata', path) = DOMAIN stored \cup {key}
           /\ \A f \in DOMAIN stored \ {key} :
                Get(metadata', path)[f] = stored[f]
           /\ \A k \in DOMAIN metadata \ {path} :
                k \in DOMAIN metadata' /\ Get(metadata', k) = Get(metadata, k)
    ]_vars

\* C14: in a fetch run that is not cancelled the worker posts the completion
\* signal once, after the last movie and the last show and right after a save
\* that leaves the store persisted; the completion handler reloads the
\* catalog, after which every entry carries the record the persisted store
\* holds for its path.
Entries(sh) == FlatEpisodes(FlatEpisodes(sh))
CarriesPersisted(entry, d) ==
  /\ json_load(d).status = "ok"
  /\ entry.metadata = Get(json_load(d).value, entry.path)
ItemKeys(t) ==
  IF t.pc \in {"show_fetch", "show_store", "show_episodes", "episode_next"}
       \/ t.caller = "episode"
    THEN {ShowKey(Str(t.it_shows[t.j].key))}
           \cup {FlatEpisodes(t.it_shows[t.j].value)[n].path :
                   n \in 1..Len(FlatEpisodes(t.it_shows[t.j].value))}
    ELSE {t.it_movies[t.i].path}
FailedItemUntouched ==
  [][\A w \in Threads :
       (~workers[w].failed /\ workers'[w].failed)
       => \A k \in ItemKeys(workers[w]) \cap DOMAIN workers[w].before :
            /\ k \in DOMAIN metadata'
            /\ metadata'[k] = workers[w].before[k]
            /\ json_load(doc').status = "ok"
                 => /\ k \in DOMAIN json_load(doc').value
                    /\ json_load(doc').value[k] = workers[w].before[k]
    ]_vars

\* C16: at every moment at most one fetch thread is running, whatever the
\* sequence of fetch triggers.
Running == {w \in Threads : workers[w].pc # "done"}
SingleWorker == Cardinality(Running) <= 1

\* C17: in a show fetch, a local episode whose name yields an episode number
\* (0 included) and which the provider lists under the same season and
\* number gets an episode record (is_episode true, show_name the show's
\* name) written at its path; an episode whose name yields no number is
\* passed over and nothing is written.
EpisodeMatching ==
  [][\A w \in Threads :
       (/\ workers[w].pc = "episode_next"
        /\ workers'[w] # workers[w]
        /\ workers[w].e <= Len(FlatEpisodes(workers[w].it_shows[workers[w].j].value)))
       => LET show == workers[w].it_shows[workers[w].j]
              ep == FlatEpisodes(show.value)[workers[w].e]
              n == _get_episode_number(ep.title)
          IN /\ (/\ n # NoEpisode
                 /\ IsNumeric(ep.season)
                 /\ [season |-> int(ep.season), number |-> n] \in workers[w].episodes_data)
                => /\ workers'[w].pc = "update_metadata"
                   /\ workers'[w].key = ep.path
                   /\ workers'[w].rec.is_episode = PyTrue
                   /\ workers'[w].rec.show_name = Str(show.key)
             /\ n = NoEpisode
                => /\ workers'[w].pc = "episode_next"
                   /\ workers'[w].e = workers[w].e + 1
                   /\ metadata' = metadata
    ]_vars

\* C18: no record is lost: once every fetch thread has ended and the main
\* loop has nothing left to run, every key a thread has written to the
\* document is in the in-memory store and in the persisted document.
Quiescent == idle = <<>> /\ \A w \in Threads : workers[w].pc = "done"
NoLostRecords ==
  Quiescent =>
    \A w \in Threads : \A k \in workers[w].saved :
      k \in DOMAIN metadata /\ Present(k)

\* C20: every started fetch thread ends and its progress dialog is closed
\* in the end, on every path; a thread whose body raised queues exactly one
\* error dialog and no _finish_metadata_refresh.
ErrorFor(w) == [fn |-> "_show_error_dialog", w |-> w]
FinishFor(w) == [fn |-> "_finish_metadata_refresh", w |-> w]
Queued(x) == Len(SelectSeq(idle, LAMBDA y : y = x))
ProgressReleased ==
  /\ \A w \in 1..MaxFetches :
       (w \in Threads) ~> (w \in Threads /\ workers[w].pc = "done" /\ ~visible[w])
  /\ [][\A w \in Threads :
          (workers[w].pc = "except" /\ workers'[w] # workers[w])
          => /\ idle' = Append(idle, ErrorFor(w))
             /\ workers'[w].pc = "finally"
             /\ ~workers'[w].posted_finish]_vars
  /\ [](\A w \in Threads :
          /\ Queued(ErrorFor(w)) <= 1
          /\ Queued(ErrorFor(w)) = 1 => (~workers[w].posted_finish /\ Queued(FinishFor(w)) = 0)
          /\ workers[w].pc = "except" => (~workers[w].posted_finish /\ Queued(ErrorFor(w)) = 0))

\* C20: a fetch the user did not cancel has ended through the except clause:
\* the error dialog was shown, no success was signalled, the progress dialog
\* is closed
ProgressReleasedWitness ==
  \E w \in Threads :
    /\ workers[w].pc = "done"
    /\ ~cancelled[w]
    /\ ~workers[w].posted_finish
    /\ workers[w].tried # {}
    /\ ~visible[w]
    /\ idle = <<>>
    /\ error_dialogs >= 1
    /\ toasts = 0

====
